---- MODULE Spec2Model ----
(***************************************************************************)
(* Model of the education-platform backend: the Flask router (app.py) and  *)
(* the Lambda handlers it dispatches to (lambdas/*/lambda_function.py).    *)
(*                                                                         *)
(* Python values are modelled as follows.                                  *)
(*   - a value returned by dict.get is a tagged record [t, v]: t is the    *)
(*     Python type ("str", "num", "null"), v is str(value).                *)
(*   - a dict is a function from its keys.                                 *)
(*   - an f-string is the sequence of its pieces.                          *)
(*   - a handler's "body" is the document json.dumps encodes; a request    *)
(*     body text is a string that JsonLoads parses.                        *)
(***************************************************************************)
EXTENDS Integers, Sequences, FiniteSets, TLC

VARIABLES
    catalog,         \* lessons.json: whether a candidate path holds it, and
                     \* its contents (grade -> subject -> list)
    environ,         \* os.environ of the process
    sdk,             \* which of the optional SDK modules were importable
    openai_api_key,  \* the module attribute openai.api_key
    clock,           \* the UTC day datetime.utcnow() falls on
    th               \* per worker thread: the handler invocation in flight

vars == <<catalog, environ, sdk, openai_api_key, clock, th>>

----------------------------------------------------------------------------
(* Bounds of the model *)

MaxLen == 2        \* longest lesson list of a subject in the catalog
MaxDay == 4        \* last day the clock reaches

NumThreads == 2    \* worker threads of the web server

Threads == 1..NumThreads

----------------------------------------------------------------------------
(* Python values *)

PyNone == [t |-> "null", v |-> "None"]
PyStr(s) == [t |-> "str", v |-> s]
PyNum(s) == [t |-> "num", v |-> s]

\* bool(x) for the values above
Truthy(x) ==
    CASE x.t = "null" -> FALSE
      [] x.t = "str"  -> x.v # ""
      [] x.t = "num"  -> x.v # "0"
      [] OTHER        -> TRUE

\* str(x), as an f-string formats it
Str(x) == x.v

EmptyDict == [k \in {} |-> ""]

\* d.get(k) on a dict of strings
DictGet(d, k) == IF k \in DOMAIN d THEN PyStr(d[k]) ELSE PyNone

----------------------------------------------------------------------------
(* Events: the dict a handler is called with *)

QspAbsent == [kind |-> "absent", d |-> EmptyDict]
QspNone == [kind |-> "none", d |-> EmptyDict]
QspDict(d) == [kind |-> "dict", d |-> d]

BodyAbsent == [kind |-> "absent", s |-> ""]
BodyStr(s) == [kind |-> "str", s |-> s]

MkEvent(q, b) == [qsp |-> q, body |-> b]

\* event.get("queryStringParameters") is truthy
HasQsp(event) == event.qsp.kind = "dict" /\ DOMAIN event.qsp.d # {}

\* event["queryStringParameters"].get(name), None when the mapping is falsy
QspGet(event, name) ==
    IF HasQsp(event) THEN DictGet(event.qsp.d, name) ELSE PyNone

\* event.get("body", "{}")
EventBody(event) == IF event.body.kind = "str" THEN event.body.s ELSE "{}"

\* how a handler ends: it returns {"statusCode": code, "body": json.dumps(body)}
\* or it raises
Ret(code, body) == [pc |-> "returned", statusCode |-> code, body |-> body, exc |-> ""]
Exc(name) == [pc |-> "raised", statusCode |-> 0, body |-> <<>>, exc |-> name]

----------------------------------------------------------------------------
(* The lesson catalog (lessons.json) *)

Subjects == {"Math", "Reading"}

Lesson(g, s, i) == [grade |-> g, subject |-> s, n |-> i]
LessonList(g, s, n) == [i \in 1..n |-> Lesson(g, s, i)]

\* A catalog with grade K (two subjects with lists of the given lengths),
\* grade 1 present with no subject, grade 2 with one subject; grade 9 absent.
Cat(n, m) ==
    [g \in {"K", "1", "2"} |->
        CASE g = "K" -> [s \in Subjects |->
                            IF s = "Math" THEN LessonList("K", s, n)
                                          ELSE LessonList("K", s, m)]
          [] g = "1" -> [s \in {} |-> <<>>]
          [] g = "2" -> [s \in {"Math"} |-> LessonList("2", s, MaxLen)]]

\* lines 50-57: the file found at one of the candidate paths and loaded
LessonFile(all_lessons) == [found |-> TRUE, lessons |-> all_lessons]

\* no candidate path holds the file
NoLessonFile == [found |-> FALSE, lessons |-> [g \in {} |-> <<>>]]

Catalogs ==
    {LessonFile(Cat(n, m)) : n \in 0..MaxLen, m \in 0..MaxLen} \cup {NoLessonFile}

\* the catalog the other specifications hold fixed
DefaultCatalog == LessonFile(Cat(MaxLen, 1))

GradeParams == {"K", "1", "2", "9", ""}

\* tm_yday and strftime("%Y-%m-%d") of the clock; the clock counts the days
\* of one year, so both name the day by its number
TmYday(c) == c
StrfDate(c) == <<"date", c>>

----------------------------------------------------------------------------
(* getLessons *)

\* lines 33-36: the grade requested, "K" when missing or empty
LessonsGrade(event) ==
    LET g == QspGet(event, "grade")
    IN IF Truthy(g) THEN g.v ELSE "K"

\* mutant: only a grade missing from the catalog counts as not found
NoGradeLessons_AbsentOnly(cat, grade) == grade \notin DOMAIN cat

\* all_lessons.get(grade) is falsy: grade absent, or present with no subject
NoGradeLessons(cat, grade) ==
    \/ grade \notin DOMAIN cat
    \/ DOMAIN cat[grade] = {}

\* mutant: the days counted from 0
PickIndex_FromZero(day_of_year, n) == (day_of_year - 1) % n

\* line 74: the index into a lesson list of length n. Python lists are
\* 0-based, sequences 1-based: PickIndex is the Python index.
PickIndex(day_of_year, n) == day_of_year % n

\* lines 70-75: one lesson per subject whose list is not empty
SelectLessons(grade_lessons, day_of_year) ==
    LET kept == {s \in DOMAIN grade_lessons : Len(grade_lessons[s]) # 0}
    IN [s \in kept |->
            grade_lessons[s][PickIndex(day_of_year, Len(grade_lessons[s])) + 1]]

NotFoundBody(grade) == [message |-> <<"No lessons found for grade ", grade>>]

LessonsBody(date, grade, lessons) ==
    [date |-> date, grade |-> grade, lessons |-> lessons]

\* lambda_handler run from its first line to its return, its two clock reads
\* falling on the days first and second
GetLessonsAlone(event, file, first, second) ==
    LET grade == LessonsGrade(event)
    IN IF ~file.found THEN Exc("FileNotFoundError")
       ELSE IF NoGradeLessons(file.lessons, grade)
       THEN Ret(404, NotFoundBody(grade))
       ELSE Ret(200, LessonsBody(StrfDate(second), grade,
                                 SelectLessons(file.lessons[grade], TmYday(first))))

----------------------------------------------------------------------------
(* Request bodies and json.loads *)

MalformedTexts == {"", "{bad", "{'grade': 'K'}"}

NonObjectTexts == {"[1]", "3", "\"hi\"", "true", "null"}

ObjectTexts ==
    {"{}",
     "{\"studentAnswer\":\"4\",\"correctAnswer\":\"4\"}",
     "{\"studentAnswer\":\"5\",\"correctAnswer\":\"4\",\"explanation\":\"2+2=4.\"}",
     "{\"studentAnswer\":4,\"correctAnswer\":\"4\"}",
     "{\"studentAnswer\":\"4\"}",
     "{\"studentId\":\"s1\",\"startDate\":\"2025-08-01\"}"}

BodyTexts == MalformedTexts \cup NonObjectTexts \cup ObjectTexts

JsonError == [ok |-> FALSE, kind |-> "", fields |-> EmptyDict]
JsonValue(kind) == [ok |-> TRUE, kind |-> kind, fields |-> EmptyDict]
JsonObject(fields) == [ok |-> TRUE, kind |-> "object", fields |-> fields]

\* json.loads(text): JsonError stands for json.JSONDecodeError
JsonLoads(text) ==
    CASE text = "[1]"    -> JsonValue("array")
      [] text = "3"      -> JsonValue("number")
      [] text = "\"hi\"" -> JsonValue("string")
      [] text = "true"   -> JsonValue("bool")
      [] text = "null"   -> JsonValue("null")
      [] text = "{}"     -> JsonObject(EmptyDict)
      [] text = "{\"studentAnswer\":\"4\",\"correctAnswer\":\"4\"}" ->
            JsonObject([k \in {"studentAnswer", "correctAnswer"} |-> PyStr("4")])
      [] text = "{\"studentAnswer\":\"5\",\"correctAnswer\":\"4\",\"explanation\":\"2+2=4.\"}" ->
            JsonObject([k \in {"studentAnswer", "correctAnswer", "explanation"} |->
                          CASE k = "studentAnswer" -> PyStr("5")
                            [] k = "correctAnswer" -> PyStr("4")
                            [] OTHER -> PyStr("2+2=4.")])
      [] text = "{\"studentAnswer\":4,\"correctAnswer\":\"4\"}" ->
            JsonObject([k \in {"studentAnswer", "correctAnswer"} |->
                          IF k = "studentAnswer" THEN PyNum("4") ELSE PyStr("4")])
      [] text = "{\"studentAnswer\":\"4\"}" ->
            JsonObject([k \in {"studentAnswer"} |-> PyStr("4")])
      [] text = "{\"studentId\":\"s1\",\"startDate\":\"2025-08-01\"}" ->
            JsonObject([k \in {"studentId", "startDate"} |->
                          IF k = "studentId" THEN PyStr("s1")
                                             ELSE PyStr("2025-08-01")])
      [] OTHER -> JsonError

\* body.get(key, default) on a parsed JSON object
BodyGet(doc, key, default) ==
    IF key \in DOMAIN doc.fields THEN doc.fields[key] ELSE default

\* only a dict has .get: any other JSON value raises AttributeError
HasGet(doc) == doc.kind = "object"

InvalidJsonBody == [message |-> "Invalid JSON"]

----------------------------------------------------------------------------
(* submitAnswer, generateReport, getCalendar, getLearningStyle *)

\* submitAnswer.lambda_handler
SubmitAnswerResult(event) ==
    LET body == JsonLoads(EventBody(event))
    IN IF ~body.ok
       THEN Ret(400, InvalidJsonBody)
       ELSE Ret(200, [message |-> "Answer recorded"])

\* generateReport.lambda_handler: body.get(...) follows the parse
GenerateReportResult(event) ==
    LET body == JsonLoads(EventBody(event))
    IN IF ~body.ok
       THEN Ret(400, InvalidJsonBody)
       ELSE IF ~HasGet(body)
       THEN Exc("AttributeError")
       ELSE Ret(200, [message |-> "Report generation initiated"])

SAMPLE_CALENDAR ==
    << [date |-> "2025-08-18", event |-> "First day of school", isSchoolDay |-> TRUE],
       [date |-> "2025-09-02", event |-> "Labor Day", isSchoolDay |-> FALSE],
       [date |-> "2025-12-20", event |-> "Winter break begins", isSchoolDay |-> FALSE] >>

\* mutant: the calendar filtered when the event has query parameters
GetCalendarResult_Filtered(event) ==
    Ret(200, [calendar |-> IF HasQsp(event) THEN SubSeq(SAMPLE_CALENDAR, 1, 1)
                                            ELSE SAMPLE_CALENDAR])

\* getCalendar.lambda_handler
GetCalendarResult(event) == Ret(200, [calendar |-> SAMPLE_CALENDAR])

\* getLearningStyle.lambda_handler, lines 11-14
LearningStyleStudent(event) ==
    LET s == QspGet(event, "studentId")
    IN IF Truthy(s) THEN s.v ELSE "unknown"

\* getLearningStyle.lambda_handler
GetLearningStyleResult(event) ==
    Ret(200, [studentId |-> LearningStyleStudent(event),
              preferredModalities |-> <<"visual", "hands-on">>,
              accuracy |-> "0.85",
              averageTimeSeconds |-> 12])

----------------------------------------------------------------------------
(* aiTutor *)

ProviderSettings == {"bedrock", "Bedrock", "openai", "OPENAI", "none", "claude", ""}
ApiKeys == {"sk-1"}

\* os.environ: a dict of strings; a name may be unset
Environs ==
    {env \in UNION {[names -> ProviderSettings \cup ApiKeys] :
                      names \in SUBSET {"AI_PROVIDER", "OPENAI_API_KEY"}} :
        /\ "AI_PROVIDER" \in DOMAIN env => env["AI_PROVIDER"] \in ProviderSettings
        /\ "OPENAI_API_KEY" \in DOMAIN env => env["OPENAI_API_KEY"] \in ApiKeys}

\* os.environ.get(name): None when unset
EnvGet(env, name) == DictGet(env, name)

\* str.lower() on the provider settings
Lower(s) ==
    CASE s = "Bedrock" -> "bedrock"
      [] s = "OPENAI"  -> "openai"
      [] OTHER         -> s

\* line 130: os.environ.get("AI_PROVIDER", "none").lower()
Provider(env) ==
    Lower(IF "AI_PROVIDER" \in DOMAIN env THEN env["AI_PROVIDER"] ELSE "none")

\* what an external model call can do: answer, answer with no text, fail
ExtOutcomes == {"text", "empty", "fail"}

Unavailable == PyStr("I'm sorry, I'm unable to provide a response right now.")
NoAnswer == PyStr("I'm sorry, I couldn't think of an answer.")
ModelText == PyStr("Nice work!")

\* the value an outcome leaves in response_text: the model's text, or None
\* when the call raised and the handler's except clause caught it
Completion(ext) ==
    CASE ext = "text"  -> ModelText
      [] ext = "empty" -> PyStr("")
      [] OTHER         -> PyNone

\* invoke_bedrock under the handler's try/except (lines 134-139)
InvokeBedrock(boto3, ext) ==
    IF ~boto3 THEN Unavailable ELSE Completion(ext)

\* openai.ChatCompletion.create: the SDK rejects a call made with no key
OpenaiOutcome(key, ext) == IF Truthy(key) THEN ext ELSE "fail"

\* invoke_openai lines 74-84: its own except clause returns a text
OpenaiCreateResult(key, ext) ==
    IF OpenaiOutcome(key, ext) = "fail" THEN NoAnswer
    ELSE Completion(OpenaiOutcome(key, ext))

GreatJob(student_answer, explanation) ==
    <<"Great job! '", Str(student_answer), "' is correct. ",
      Str(explanation), " Keep up the good work!">>

GoodTry(correct_answer, explanation) ==
    <<"Good try! The correct answer is '", Str(correct_answer), "'. ",
      Str(explanation), " You'll get it next time!">>

\* mutant: the answers compared as the texts the template shows
Fallback_ComparesText(doc) ==
    LET student_answer == BodyGet(doc, "studentAnswer", PyNone)
        correct_answer == BodyGet(doc, "correctAnswer", PyNone)
        explanation == BodyGet(doc, "explanation", PyStr(""))
    IN IF Str(student_answer) = Str(correct_answer)
       THEN GreatJob(student_answer, explanation)
       ELSE GoodTry(correct_answer, explanation)

\* lines 149-156: the deterministic feedback
Fallback(doc) ==
    LET student_answer == BodyGet(doc, "studentAnswer", PyNone)
        correct_answer == BodyGet(doc, "correctAnswer", PyNone)
        explanation == BodyGet(doc, "explanation", PyStr(""))
    IN IF student_answer = correct_answer
       THEN GreatJob(student_answer, explanation)
       ELSE GoodTry(correct_answer, explanation)

\* lines 147-161: the text returned, given what the provider path left
ResponseText(doc, response_text) ==
    IF Truthy(response_text) THEN <<response_text.v>> ELSE Fallback(doc)

AiBody(doc, response_text) == [response |-> ResponseText(doc, response_text)]

\* lambda_handler run from its first line to its return with no other
\* invocation in between, the external call (if one is made) ending as ext
AiTutorAlone(event, env, sdks, ext) ==
    LET doc == JsonLoads(EventBody(event))
        provider == Provider(env)
    IN CASE ~doc.ok -> Ret(400, InvalidJsonBody)
         [] doc.ok /\ ~HasGet(doc) -> Exc("AttributeError")
         [] doc.ok /\ HasGet(doc) /\ provider = "bedrock" ->
               Ret(200, AiBody(doc, InvokeBedrock(sdks.boto3, ext)))
         [] doc.ok /\ HasGet(doc) /\ provider = "openai" /\ ~sdks.openai ->
               Ret(200, AiBody(doc, Unavailable))
         [] doc.ok /\ HasGet(doc) /\ provider = "openai" /\ sdks.openai ->
               Ret(200, AiBody(doc, OpenaiCreateResult(EnvGet(env, "OPENAI_API_KEY"),
                                                       ext)))
         [] OTHER -> Ret(200, AiBody(doc, PyNone))

----------------------------------------------------------------------------
(* Worker threads *)

NoReq == [path |-> "", args |-> EmptyDict, data |-> ""]
NoEvent == MkEvent(QspAbsent, BodyAbsent)
NoHttp == [status |-> 0, json |-> <<>>]

Idle ==
    [pc |-> "idle", handler |-> "", via |-> "", req |-> NoReq,
     event |-> NoEvent, loc |-> <<>>, invoked |-> "", ext |-> "",
     statusCode |-> 0, body |-> <<>>, exc |-> "", http |-> NoHttp]

\* Fields of a thread's record: pc, where the invocation stands; handler and
\* via, which handler runs and whether the router called it; req and event,
\* the HTTP request and the event built from it; loc, the handler's locals;
\* invoked, the provider function aiTutor called; ext, what the external
\* model call did; statusCode, body, exc, the handler's result; http, the
\* router's response.

\* a handler invocation starts
Started(h, via, req, event) ==
    [Idle EXCEPT !.handler = h, !.via = via, !.req = req, !.event = event]

\* the handler returns {"statusCode": code, "body": json.dumps(body)}
Returned(call, code, body) ==
    [call EXCEPT !.pc = "returned", !.statusCode = code, !.body = body]

\* the handler raises
Raised(call, exc) == [call EXCEPT !.pc = "raised", !.exc = exc]

\* the outcome of a one-step handler
Finished(call, res) ==
    [call EXCEPT !.pc = res.pc, !.statusCode = res.statusCode,
                 !.body = res.body, !.exc = res.exc]

----------------------------------------------------------------------------
(* getLessons as steps of a thread: the handler reads the clock twice *)

\* lines 33-75: the grade, the catalog file, the selection of the lessons
GetLessonsStart(t, via, req, event) ==
    /\ th[t].pc = "idle"
    /\ LET call == Started("getLessons", via, req, event)
           grade == LessonsGrade(event)
       IN IF ~catalog.found
          THEN th' = [th EXCEPT ![t] = Raised(call, "FileNotFoundError")]
          ELSE IF NoGradeLessons(catalog.lessons, grade)
          THEN th' = [th EXCEPT ![t] = Returned(call, 404, NotFoundBody(grade))]
          ELSE th' = [th EXCEPT ![t] =
                        [call EXCEPT !.pc = "lessons_date",
                                     !.loc = [grade |-> grade,
                                              day_of_year |-> TmYday(clock),
                                              response_lessons |->
                                                 SelectLessons(catalog.lessons[grade],
                                                               TmYday(clock))]]]
    /\ UNCHANGED <<catalog, environ, sdk, openai_api_key, clock>>

\* lines 77-85: the second clock read and the response
GetLessonsReturn(t) ==
    /\ th[t].pc = "lessons_date"
    /\ th' = [th EXCEPT ![t] =
                Returned(th[t], 200,
                         LessonsBody(StrfDate(clock), th[t].loc.grade,
                                     th[t].loc.response_lessons))]
    /\ UNCHANGED <<catalog, environ, sdk, openai_api_key, clock>>

\* the day changes
Tick ==
    /\ clock < MaxDay
    /\ clock' = clock + 1
    /\ UNCHANGED <<catalog, environ, sdk, openai_api_key, th>>

----------------------------------------------------------------------------
(* aiTutor as steps of a thread: the OpenAI path writes openai.api_key and *)
(* then calls the SDK, which reads it                                       *)

\* line 69: the key invoke_openai stores in the SDK module
OpenaiKeyToSet(env) == EnvGet(env, "OPENAI_API_KEY")

\* the outcomes the Bedrock call can have; none when boto3 is missing
BedrockOutcomes(boto3) == IF boto3 THEN ExtOutcomes ELSE {""}

\* lines 105-145, and 147-161 on the paths that make no OpenAI call
AiTutorStart(t, via, req, event) ==
    /\ th[t].pc = "idle"
    /\ LET call == Started("aiTutor", via, req, event)
           doc == JsonLoads(EventBody(event))
           provider == Provider(environ)
       IN CASE ~doc.ok ->
                 /\ th' = [th EXCEPT ![t] = Returned(call, 400, InvalidJsonBody)]
                 /\ UNCHANGED openai_api_key
            [] doc.ok /\ ~HasGet(doc) ->
                 /\ th' = [th EXCEPT ![t] = Raised(call, "AttributeError")]
                 /\ UNCHANGED openai_api_key
            [] doc.ok /\ HasGet(doc) /\ provider = "bedrock" ->
                 /\ \E ext \in BedrockOutcomes(sdk.boto3) :
                       th' = [th EXCEPT ![t] =
                                Returned([call EXCEPT !.ext = ext, !.loc = doc,
                                                      !.invoked = "invoke_bedrock"],
                                         200,
                                         AiBody(doc, InvokeBedrock(sdk.boto3, ext)))]
                 /\ UNCHANGED openai_api_key
            [] doc.ok /\ HasGet(doc) /\ provider = "openai" /\ ~sdk.openai ->
                 /\ th' = [th EXCEPT ![t] =
                             Returned([call EXCEPT !.loc = doc,
                                                   !.invoked = "invoke_openai"],
                                      200, AiBody(doc, Unavailable))]
                 /\ UNCHANGED openai_api_key
            [] doc.ok /\ HasGet(doc) /\ provider = "openai" /\ sdk.openai ->
                 /\ openai_api_key' = OpenaiKeyToSet(environ)
                 /\ th' = [th EXCEPT ![t] =
                             [call EXCEPT !.pc = "openai_create", !.loc = doc,
                                          !.invoked = "invoke_openai"]]
            [] OTHER ->
                 /\ th' = [th EXCEPT ![t] =
                             Returned([call EXCEPT !.loc = doc], 200,
                                      AiBody(doc, PyNone))]
                 /\ UNCHANGED openai_api_key
    /\ UNCHANGED <<catalog, environ, sdk, clock>>

\* mutant: the key cleared once the SDK call is over
OpenaiCreate_ClearsKey(t) ==
    /\ th[t].pc = "openai_create"
    /\ \E ext \in ExtOutcomes :
          th' = [th EXCEPT ![t] =
                   Returned([th[t] EXCEPT !.ext = ext], 200,
                            AiBody(th[t].loc,
                                   OpenaiCreateResult(openai_api_key, ext)))]
    /\ openai_api_key' = PyNone
    /\ UNCHANGED <<catalog, environ, sdk, clock>>

\* lines 74-84 and 147-161: the SDK call, made with the key the module holds
OpenaiCreate(t) ==
    /\ th[t].pc = "openai_create"
    /\ \E ext \in ExtOutcomes :
          th' = [th EXCEPT ![t] =
                   Returned([th[t] EXCEPT !.ext = ext], 200,
                            AiBody(th[t].loc,
                                   OpenaiCreateResult(openai_api_key, ext)))]
    /\ UNCHANGED <<catalog, environ, sdk, openai_api_key, clock>>

----------------------------------------------------------------------------
(* The handlers that run in one step *)

OneStep(t, h, via, req, event, res) ==
    /\ th[t].pc = "idle"
    /\ th' = [th EXCEPT ![t] = Finished(Started(h, via, req, event), res)]
    /\ UNCHANGED <<catalog, environ, sdk, openai_api_key, clock>>

SubmitAnswer(t, via, req, event) ==
    OneStep(t, "submitAnswer", via, req, event, SubmitAnswerResult(event))

GenerateReport(t, via, req, event) ==
    OneStep(t, "generateReport", via, req, event, GenerateReportResult(event))

GetCalendar(t, via, req, event) ==
    OneStep(t, "getCalendar", via, req, event, GetCalendarResult(event))

GetLearningStyle(t, via, req, event) ==
    OneStep(t, "getLearningStyle", via, req, event, GetLearningStyleResult(event))

----------------------------------------------------------------------------
(* app.py: the routes. A request is [path, args, data]: request.args as a  *)
(* dict and request.data decoded as text.                                  *)

MkReq(path, args, data) == [path |-> path, args |-> args, data |-> data]

\* request.args.to_dict() or None
ArgsOrNone(args) == IF DOMAIN args # {} THEN QspDict(args) ELSE QspNone

\* the event each route builds (app.py lines 122, 129, 136, 143, 150, 158)
LessonsRouteEvent(req) == [queryStringParameters |-> ArgsOrNone(req.args)]
AiRouteEvent(req) == [body |-> req.data]
AnswerRouteEvent(req) == [body |-> req.data]
ReportRouteEvent(req) == [body |-> req.data]
CalendarRouteEvent(req) == [k \in {} |-> ""]
\* mutant: the query parameters passed on
LearningStyleRouteEvent_WithQuery(req) ==
    [queryStringParameters |-> ArgsOrNone(req.args)]
LearningStyleRouteEvent(req) == [k \in {} |-> ""]

\* a Python event dict as the handlers' model reads it
AsEvent(dict) ==
    MkEvent(IF "queryStringParameters" \in DOMAIN dict
                THEN dict["queryStringParameters"] ELSE QspAbsent,
            IF "body" \in DOMAIN dict THEN BodyStr(dict["body"]) ELSE BodyAbsent)

lessons_route(t, req) ==
    GetLessonsStart(t, "route", req, AsEvent(LessonsRouteEvent(req)))

ai_route(t, req) ==
    AiTutorStart(t, "route", req, AsEvent(AiRouteEvent(req)))

answer_route(t, req) ==
    SubmitAnswer(t, "route", req, AsEvent(AnswerRouteEvent(req)))

report_route(t, req) ==
    GenerateReport(t, "route", req, AsEvent(ReportRouteEvent(req)))

calendar_route(t, req) ==
    GetCalendar(t, "route", req, AsEvent(CalendarRouteEvent(req)))

learning_style_route(t, req) ==
    GetLearningStyle(t, "route", req, AsEvent(LearningStyleRouteEvent(req)))

\* call_lambda lines 111-117 and jsonify(body), status: the handler's result
\* becomes the HTTP response
call_lambda(t) ==
    /\ th[t].pc = "returned"
    /\ th[t].via = "route"
    /\ th' = [th EXCEPT ![t] =
                [th[t] EXCEPT !.pc = "responded",
                              !.http = [status |-> th[t].statusCode,
                                        json |-> th[t].body]]]
    /\ UNCHANGED <<catalog, environ, sdk, openai_api_key, clock>>

\* the invocation is over and the thread takes the next request
Reap(t) ==
    /\ \/ th[t].pc = "responded"
       \/ th[t].pc = "raised"
       \/ th[t].pc = "returned" /\ th[t].via = "direct"
    /\ th' = [th EXCEPT ![t] = Idle]
    /\ UNCHANGED <<catalog, environ, sdk, openai_api_key, clock>>

----------------------------------------------------------------------------
(* Inputs *)

GradeDict(g) == [k \in {"grade"} |-> g]
StudentDict == [k \in {"studentId"} |-> "s1"]
BothDict(g) == [k \in {"grade", "studentId"} |-> IF k = "grade" THEN g ELSE "s1"]

\* query strings
ArgDicts ==
    {EmptyDict, StudentDict, BothDict("K"), BothDict("9")}
        \cup {GradeDict(g) : g \in GradeParams}

\* events of a direct invocation of a GET handler
QueryEvents ==
    {MkEvent(q, BodyAbsent) :
        q \in {QspAbsent, QspNone} \cup {QspDict(d) : d \in ArgDicts}}

\* events of a direct invocation of a POST handler
BodyEvents ==
    {NoEvent} \cup {MkEvent(QspAbsent, BodyStr(s)) : s \in BodyTexts}

GetRequests(path) == {MkReq(path, args, "") : args \in ArgDicts}
PostRequests(path) == {MkReq(path, EmptyDict, data) : data \in BodyTexts}

----------------------------------------------------------------------------
(* Specifications *)

InitThreads ==
    /\ th = [t \in Threads |-> Idle]
    /\ clock = 1

\* openai.api_key before any call: the SDK's default, None or the
\* environment's key depending on the SDK version
InitSdkKey == openai_api_key \in {PyNone, OpenaiKeyToSet(environ)}

\* every handler, invoked directly and through the router, one request at a
\* time, under every provider configuration
Init ==
    /\ InitThreads
    /\ catalog = DefaultCatalog
    /\ environ \in Environs
    /\ sdk \in [boto3 : BOOLEAN, openai : BOOLEAN]
    /\ InitSdkKey

\* the thread that serves when requests come one at a time
Main == CHOOSE t \in Threads : \A u \in Threads : t <= u

InvokeGetLessons(t) == \E e \in QueryEvents : GetLessonsStart(t, "direct", NoReq, e)
InvokeAiTutor(t) == \E e \in BodyEvents : AiTutorStart(t, "direct", NoReq, e)
InvokeSubmitAnswer(t) == \E e \in BodyEvents : SubmitAnswer(t, "direct", NoReq, e)
InvokeGenerateReport(t) == \E e \in BodyEvents : GenerateReport(t, "direct", NoReq, e)
InvokeGetCalendar(t) == \E e \in QueryEvents : GetCalendar(t, "direct", NoReq, e)
InvokeGetLearningStyle(t) ==
    \E e \in QueryEvents : GetLearningStyle(t, "direct", NoReq, e)

RouteLessons(t) == \E req \in GetRequests("/lessons") : lessons_route(t, req)
RouteAi(t) == \E req \in PostRequests("/ai") : ai_route(t, req)
RouteAnswer(t) == \E req \in PostRequests("/answer") : answer_route(t, req)
RouteReport(t) == \E req \in PostRequests("/report") : report_route(t, req)
RouteCalendar(t) == \E req \in GetRequests("/calendar") : calendar_route(t, req)
RouteLearningStyle(t) ==
    \E req \in GetRequests("/learning-style") : learning_style_route(t, req)

Next ==
    \/ InvokeGetLessons(Main)
    \/ InvokeAiTutor(Main)
    \/ InvokeSubmitAnswer(Main)
    \/ InvokeGenerateReport(Main)
    \/ InvokeGetCalendar(Main)
    \/ InvokeGetLearningStyle(Main)
    \/ RouteLessons(Main)
    \/ RouteAi(Main)
    \/ RouteAnswer(Main)
    \/ RouteReport(Main)
    \/ RouteCalendar(Main)
    \/ RouteLearningStyle(Main)
    \/ GetLessonsReturn(Main)
    \/ OpenaiCreate(Main)
    \/ call_lambda(Main)
    \/ Reap(Main)
    \/ Tick

Spec == Init /\ [][Next]_vars

\* the lessons handler over every catalog and day
InitLessons ==
    /\ InitThreads
    /\ catalog \in Catalogs
    /\ environ = EmptyDict
    /\ sdk = [boto3 |-> FALSE, openai |-> FALSE]
    /\ openai_api_key = PyNone

NextLessons ==
    \/ InvokeGetLessons(Main)
    \/ RouteLessons(Main)
    \/ GetLessonsReturn(Main)
    \/ call_lambda(Main)
    \/ Reap(Main)
    \/ Tick

SpecLessons == InitLessons /\ [][NextLessons]_vars

----------------------------------------------------------------------------
(* Claims about getLessons (checked under SpecLessons) *)

\* a getLessons invocation of thread t has returned, the catalog file found
LessonsDone(t) ==
    /\ th[t].handler = "getLessons"
    /\ th[t].pc = "returned"
    /\ catalog.found

\* the grade an event asks for: its grade parameter, K when there is none
\* or it is empty
RequestedGrade(event) ==
    IF /\ event.qsp.kind = "dict"
       /\ "grade" \in DOMAIN event.qsp.d
       /\ event.qsp.d["grade"] # ""
    THEN event.qsp.d["grade"]
    ELSE "K"

\* the entry of list L (a Python list, 0-based) that day d selects
EntryOfDay(L, d) == L[(d % Len(L)) + 1]

\* C1 as stated: for every grade present in the catalog the handler returns
\* 200 with exactly one entry per subject of the grade, the entry of a
\* subject with list L being L[d mod len(L)].
C1_OneEntryPerSubject ==
    \A t \in Threads :
        (LessonsDone(t) /\ RequestedGrade(th[t].event) \in DOMAIN catalog.lessons) =>
            LET L == catalog.lessons[RequestedGrade(th[t].event)]
                d == th[t].loc.day_of_year
            IN /\ th[t].statusCode = 200
               /\ DOMAIN th[t].body.lessons = DOMAIN L
               /\ \A s \in DOMAIN L : th[t].body.lessons[s] = EntryOfDay(L[s], d)

\* C1 amended: for every grade whose catalog entry has at least one subject
\* the handler returns 200 with exactly one entry for each subject whose
\* lesson list is not empty (subjects with an empty list have no entry), the
\* entry of a subject with list L being L[d mod len(L)], d the day-of-year
\* the handler read.
C1_OneEntryPerNonEmptySubject ==
    \A t \in Threads :
        (/\ LessonsDone(t)
         /\ RequestedGrade(th[t].event) \in DOMAIN catalog.lessons
         /\ DOMAIN catalog.lessons[RequestedGrade(th[t].event)] # {}) =>
            LET L == catalog.lessons[RequestedGrade(th[t].event)]
                d == th[t].loc.day_of_year
            IN /\ th[t].statusCode = 200
               /\ d \in 1..clock
               /\ DOMAIN th[t].body.lessons = {s \in DOMAIN L : Len(L[s]) > 0}
               /\ \A s \in DOMAIN th[t].body.lessons :
                     th[t].body.lessons[s] = EntryOfDay(L[s], d)

\* C1 witness: on day 1 grade K with a two-entry Math list got index 1 (the
\* second entry), and the Reading subject, whose list is empty, was left out.
C1_Witness ==
    \E t \in Threads :
        /\ LessonsDone(t)
        /\ th[t].statusCode = 200
        /\ RequestedGrade(th[t].event) = "K"
        /\ th[t].loc.day_of_year = 1
        /\ Len(catalog.lessons["K"]["Math"]) = 2
        /\ th[t].body.lessons["Math"] = Lesson("K", "Math", 2)
        /\ Len(catalog.lessons["K"]["Reading"]) = 0
        /\ "Reading" \notin DOMAIN th[t].body.lessons

\* C2 as stated: 404 with a message if and only if the requested grade is
\* absent from the catalog.
C2_NotFoundIffAbsent ==
    \A t \in Threads :
        LessonsDone(t) =>
            ((th[t].statusCode = 404 /\ "message" \in DOMAIN th[t].body)
                <=> RequestedGrade(th[t].event) \notin DOMAIN catalog.lessons)

\* C2 amended: 404 with the message "No lessons found for grade <grade>" if
\* and only if the requested grade (K when no grade parameter is supplied or
\* it is empty) is absent from the catalog or its catalog entry holds no
\* subject; every other grade yields 200.
C2_NotFoundIffNoLessons ==
    \A t \in Threads :
        LessonsDone(t) =>
            LET g == RequestedGrade(th[t].event)
                none == g \notin DOMAIN catalog.lessons \/ DOMAIN catalog.lessons[g] = {}
            IN /\ none => /\ th[t].statusCode = 404
                          /\ DOMAIN th[t].body = {"message"}
                          /\ th[t].body.message = <<"No lessons found for grade ", g>>
               /\ ~none => th[t].statusCode = 200

\* C2 witness: a grade present in the catalog with no subject got 404
C2_Witness ==
    \E t \in Threads :
        /\ LessonsDone(t)
        /\ RequestedGrade(th[t].event) = "1"
        /\ "1" \in DOMAIN catalog.lessons
        /\ th[t].statusCode = 404

\* C9 as the test states it: an event with no query parameters gets 200 and
\* a body whose top-level title starts with "Sample K Lesson".
C9_DefaultGradeTitle ==
    \A t \in Threads :
        (LessonsDone(t) /\ th[t].event = NoEvent) =>
            /\ th[t].statusCode = 200
            /\ "title" \in DOMAIN th[t].body
            /\ SubSeq(th[t].body["title"], 1, 1) = <<"Sample K Lesson">>

----------------------------------------------------------------------------
(* Claims about the POST handlers and the router (checked under Spec) *)

\* the invocation of thread t is over: the handler returned or raised
Over(t) == th[t].pc \in {"returned", "responded", "raised"}

\* the handler of thread t returned (and the router may have answered)
HasReturned(t) == th[t].pc \in {"returned", "responded"}

\* C3 as stated: submitAnswer and generateReport return 400 "Invalid JSON"
\* for a body that is not parseable JSON and 200 with their fixed
\* acknowledgement for every valid JSON value, without raising.
C3_JsonAcknowledged ==
    \A t \in Threads :
        (th[t].handler \in {"submitAnswer", "generateReport"} /\ Over(t)) =>
            /\ HasReturned(t)
            /\ IF EventBody(th[t].event) \in MalformedTexts
               THEN /\ th[t].statusCode = 400
                    /\ th[t].body = [message |-> "Invalid JSON"]
               ELSE /\ th[t].statusCode = 200
                    /\ th[t].body =
                         [message |-> IF th[t].handler = "submitAnswer"
                                      THEN "Answer recorded"
                                      ELSE "Report generation initiated"]

\* C4 as stated: aiTutor returns 200 with a response text for every request
\* body, provider setting and provider outcome; no exception propagates.
C4_AlwaysOk ==
    \A t \in Threads :
        (th[t].handler = "aiTutor" /\ Over(t)) =>
            /\ HasReturned(t)
            /\ th[t].statusCode = 200
            /\ "response" \in DOMAIN th[t].body

\* the deterministic template for a parsed JSON object
Template(doc) ==
    LET sa == IF "studentAnswer" \in DOMAIN doc.fields
              THEN doc.fields["studentAnswer"] ELSE PyNone
        ca == IF "correctAnswer" \in DOMAIN doc.fields
              THEN doc.fields["correctAnswer"] ELSE PyNone
        ex == IF "explanation" \in DOMAIN doc.fields
              THEN doc.fields["explanation"].v ELSE ""
    IN IF sa = ca
       THEN <<"Great job! '", sa.v, "' is correct. ", ex, " Keep up the good work!">>
       ELSE <<"Good try! The correct answer is '", ca.v, "'. ", ex,
              " You'll get it next time!">>

\* the provider selected failed: its SDK is missing, its configuration is
\* missing, or the external call failed
ProviderFailed(t) ==
    \/ /\ th[t].invoked = "invoke_bedrock"
       /\ ~sdk.boto3 \/ th[t].ext = "fail"
    \/ /\ th[t].invoked = "invoke_openai"
       /\ \/ ~sdk.openai
          \/ "OPENAI_API_KEY" \notin DOMAIN environ
          \/ th[t].ext = "fail"

\* C5 as stated: when the selected provider's SDK is missing, its
\* configuration is missing or its call fails, the text returned is the
\* deterministic template, never any other text.
C5_FailureFallsBackToTemplate ==
    \A t \in Threads :
        (th[t].handler = "aiTutor" /\ HasReturned(t) /\ th[t].statusCode = 200
            /\ ProviderFailed(t)) =>
            th[t].body.response = Template(th[t].loc)

\* an aiTutor invocation with a JSON-object body is past the provider choice
TutorObjectCall(t) ==
    /\ th[t].handler = "aiTutor"
    /\ th[t].pc \in {"openai_create", "returned", "responded"}
    /\ EventBody(th[t].event) \in ObjectTexts

\* no provider function ran, and the text is the template
TemplateWithoutProvider(t) ==
    /\ HasReturned(t)
    /\ th[t].statusCode = 200
    /\ th[t].invoked = ""
    /\ th[t].ext = ""
    /\ th[t].body.response = Template(JsonLoads(EventBody(th[t].event)))

\* C6 as stated: with AI_PROVIDER unset or any value other than bedrock or
\* openai, every JSON-object body gets the template and no provider function
\* is invoked.
C6_OtherValuesFallBack ==
    \A t \in Threads :
        (/\ TutorObjectCall(t)
         /\ \/ "AI_PROVIDER" \notin DOMAIN environ
            \/ environ["AI_PROVIDER"] \notin {"bedrock", "openai"}) =>
            TemplateWithoutProvider(t)

\* C6 amended: with AI_PROVIDER unset or any value that is not bedrock or
\* openai in any letter case (the setting is lower-cased before it is
\* compared), every JSON-object body gets the "Great job!" template naming
\* studentAnswer when studentAnswer equals correctAnswer and the "Good try!"
\* template naming correctAnswer otherwise, and no provider function is
\* invoked.
C6_NoProviderFallsBack ==
    \A t \in Threads :
        (/\ TutorObjectCall(t)
         /\ \/ "AI_PROVIDER" \notin DOMAIN environ
            \/ environ["AI_PROVIDER"] \notin
                  {"bedrock", "Bedrock", "openai", "OPENAI"}) =>
            TemplateWithoutProvider(t)

\* C6 witness: under an unknown provider setting, the answers 4 (a number)
\* and "4" (a string) differ and got the "Good try!" template
C6_Witness ==
    \E t \in Threads :
        /\ TutorObjectCall(t)
        /\ "AI_PROVIDER" \in DOMAIN environ
        /\ environ["AI_PROVIDER"] = "claude"
        /\ EventBody(th[t].event) = "{\"studentAnswer\":4,\"correctAnswer\":\"4\"}"
        /\ HasReturned(t)
        /\ th[t].body.response[1] = "Good try! The correct answer is '"

\* the handler each route is bound to
BoundHandler(path) ==
    CASE path = "/lessons"        -> "getLessons"
      [] path = "/ai"             -> "aiTutor"
      [] path = "/answer"         -> "submitAnswer"
      [] path = "/report"         -> "generateReport"
      [] path = "/calendar"       -> "getCalendar"
      [] path = "/learning-style" -> "getLearningStyle"

GetPaths == {"/lessons", "/calendar", "/learning-style"}
PostPaths == {"/ai", "/answer", "/report"}

\* every query parameter of the request is in the event's
\* queryStringParameters
CarriesQuery(event, args) ==
    \A k \in DOMAIN args :
        /\ event.qsp.kind = "dict"
        /\ k \in DOMAIN event.qsp.d
        /\ event.qsp.d[k] = args[k]

\* C7 as stated: on every GET route the event carries the request's query
\* parameters and on every POST route the raw body text, so that a studentId
\* sent to /learning-style is visible to its handler.
C7_GetRoutesCarryQuery ==
    \A t \in Threads :
        th[t].via = "route" =>
            /\ th[t].handler = BoundHandler(th[t].req.path)
            /\ th[t].req.path \in GetPaths =>
                  CarriesQuery(th[t].event, th[t].req.args)
            /\ th[t].req.path \in PostPaths =>
                  th[t].event.body = BodyStr(th[t].req.data)
            /\ (/\ th[t].req.path = "/learning-style"
                /\ HasReturned(t)
                /\ "studentId" \in DOMAIN th[t].req.args) =>
                  th[t].body.studentId = th[t].req.args["studentId"]

\* C7 amended: each of the six routes invokes its bound handler with an
\* event built from the request: on /lessons the event carries the query
\* parameters (None when the request has none), on the POST routes /ai,
\* /answer and /report it carries the raw body text, and on /calendar and
\* /learning-style it is empty, so a query parameter sent to these two is not
\* visible to the handler (through the router getLearningStyle always
\* reports studentId "unknown").
C7_RouteEvents ==
    \A t \in Threads :
        th[t].via = "route" =>
            /\ th[t].handler = BoundHandler(th[t].req.path)
            /\ th[t].req.path = "/lessons" =>
                  /\ CarriesQuery(th[t].event, th[t].req.args)
                  /\ th[t].event.body = BodyAbsent
                  /\ DOMAIN th[t].req.args = {} => th[t].event.qsp = QspNone
            /\ th[t].req.path \in PostPaths =>
                  th[t].event = MkEvent(QspAbsent, BodyStr(th[t].req.data))
            /\ th[t].req.path \in {"/calendar", "/learning-style"} =>
                  th[t].event = MkEvent(QspAbsent, BodyAbsent)
            /\ (th[t].req.path = "/learning-style" /\ HasReturned(t)) =>
                  th[t].body.studentId = "unknown"

\* C7 witness: a request to /learning-style with studentId=s1 was answered
\* for student "unknown"
C7_Witness ==
    \E t \in Threads :
        /\ th[t].via = "route"
        /\ th[t].req.path = "/learning-style"
        /\ "studentId" \in DOMAIN th[t].req.args
        /\ th[t].pc = "responded"
        /\ th[t].http.status = 200
        /\ th[t].http.json.studentId = "unknown"

\* C8: getCalendar and getLearningStyle return 200 with the same fixed
\* payload on every call, whatever the event, the provider configuration and
\* the calls made before: the calendar is the three-entry sample list, and
\* the learning-style profile has the fixed preferredModalities, accuracy and
\* averageTimeSeconds.
C8_FixedPayloads ==
    \A t \in Threads :
        /\ (th[t].handler = "getCalendar" /\ Over(t)) =>
              /\ HasReturned(t)
              /\ th[t].statusCode = 200
              /\ DOMAIN th[t].body = {"calendar"}
              /\ Len(th[t].body.calendar) = 3
              /\ th[t].body.calendar[1] =
                    [date |-> "2025-08-18", event |-> "First day of school",
                     isSchoolDay |-> TRUE]
              /\ th[t].body.calendar[2] =
                    [date |-> "2025-09-02", event |-> "Labor Day",
                     isSchoolDay |-> FALSE]
              /\ th[t].body.calendar[3] =
                    [date |-> "2025-12-20", event |-> "Winter break begins",
                     isSchoolDay |-> FALSE]
        /\ (th[t].handler = "getLearningStyle" /\ Over(t)) =>
              /\ HasReturned(t)
              /\ th[t].statusCode = 200
              /\ th[t].body.preferredModalities = <<"visual", "hands-on">>
              /\ th[t].body.accuracy = "0.85"
              /\ th[t].body.averageTimeSeconds = 12

\* C8 witness: with the OpenAI provider configured and its key held by the
\* SDK module, getLearningStyle, called with a studentId, returned the fixed
\* profile
C8_Witness ==
    \E t \in Threads :
        /\ th[t].handler = "getLearningStyle"
        /\ HasReturned(t)
        /\ th[t].body.studentId = "s1"
        /\ th[t].body.accuracy = "0.85"
        /\ Provider(environ) = "openai"
        /\ openai_api_key = PyStr("sk-1")

----------------------------------------------------------------------------
(* Concurrent requests: every worker thread serves requests through the    *)
(* router, their steps interleaved                                         *)

ConcProviders == {"openai", "bedrock"}

InitConc ==
    /\ InitThreads
    /\ catalog = DefaultCatalog
    /\ environ \in {env \in Environs :
                      "AI_PROVIDER" \in DOMAIN env =>
                          env["AI_PROVIDER"] \in ConcProviders}
    /\ sdk \in [boto3 : BOOLEAN, openai : BOOLEAN]
    /\ InitSdkKey

ConcAiRequests ==
    {MkReq("/ai", EmptyDict, data) :
        data \in {"{\"studentAnswer\":\"4\",\"correctAnswer\":\"4\"}",
                  "{\"studentAnswer\":4,\"correctAnswer\":\"4\"}"}}

ConcRouteAi(t) == \E req \in ConcAiRequests : ai_route(t, req)
ConcRouteLessons(t) == lessons_route(t, MkReq("/lessons", GradeDict("K"), ""))
ConcRouteAnswer(t) == answer_route(t, MkReq("/answer", EmptyDict, "{}"))
ConcRouteLearningStyle(t) ==
    learning_style_route(t, MkReq("/learning-style", StudentDict, ""))

NextConc ==
    \E t \in Threads :
        \/ ConcRouteAi(t)
        \/ ConcRouteLessons(t)
        \/ GetLessonsReturn(t)
        \/ ConcRouteAnswer(t)
        \/ ConcRouteLearningStyle(t)
        \/ OpenaiCreate(t)
        \/ call_lambda(t)
        \/ Reap(t)

SpecConc == InitConc /\ [][NextConc]_vars

\* the result of thread t's invocation is the one its request gets when run
\* alone
AsAlone(t) ==
    LET alone ==
          CASE th[t].handler = "aiTutor" ->
                   AiTutorAlone(th[t].event, environ, sdk, th[t].ext)
            [] th[t].handler = "getLessons" ->
                   IF th[t].statusCode = 200
                   THEN GetLessonsAlone(th[t].event, catalog, th[t].loc.day_of_year,
                                        th[t].body.date[2])
                   ELSE GetLessonsAlone(th[t].event, catalog, clock, clock)
            [] th[t].handler = "submitAnswer" -> SubmitAnswerResult(th[t].event)
            [] th[t].handler = "generateReport" -> GenerateReportResult(th[t].event)
            [] th[t].handler = "getCalendar" -> GetCalendarResult(th[t].event)
            [] th[t].handler = "getLearningStyle" ->
                   GetLearningStyleResult(th[t].event)
    IN /\ th[t].statusCode = alone.statusCode
       /\ th[t].body = alone.body

ResponsesAsAlone == \A t \in Threads : HasReturned(t) => AsAlone(t)

\* a step writes no state of the process outside the invocations themselves
NoSharedWrite ==
    /\ openai_api_key' = openai_api_key
    /\ environ' = environ
    /\ sdk' = sdk
    /\ catalog' = catalog

\* C10 as stated: no handler invocation writes module-level or process-wide
\* state, and under every interleaving each request gets the response it
\* gets when run alone.
C10_NoSharedState == [][NoSharedWrite]_vars /\ []ResponsesAsAlone

\* the only shared write: an aiTutor invocation entering the OpenAI path
\* stores the environment's OPENAI_API_KEY in openai.api_key
OnlyKeyWrite ==
    /\ environ' = environ
    /\ sdk' = sdk
    /\ catalog' = catalog
    /\ openai_api_key' # openai_api_key =>
          /\ openai_api_key' =
                IF "OPENAI_API_KEY" \in DOMAIN environ
                THEN PyStr(environ["OPENAI_API_KEY"]) ELSE PyNone
          /\ \E t \in Threads :
                /\ th[t].pc = "idle"
                /\ th'[t].pc = "openai_create"
                /\ th'[t].handler = "aiTutor"

\* C10 amended: the only module-level or process-wide state a handler
\* invocation writes is openai.api_key, which the aiTutor OpenAI path sets to
\* the environment's OPENAI_API_KEY before each SDK call; every invocation
\* writes that same value, so under every interleaving each request still
\* gets the response it gets when run alone.
C10_OnlyKeyWritten == [][OnlyKeyWrite]_vars /\ []ResponsesAsAlone

\* C10 witness: two aiTutor invocations on the OpenAI path overlapped: one
\* has returned the model's text while the other, which wrote the key in
\* between, is about to call the SDK
C10_Witness ==
    \E t, u \in Threads :
        /\ t # u
        /\ th[t].handler = "aiTutor"
        /\ th[t].pc = "returned"
        /\ th[t].ext = "text"
        /\ th[t].body.response = <<"Nice work!">>
        /\ th[u].pc = "openai_create"
        /\ openai_api_key = PyStr("sk-1")

----------------------------------------------------------------------------
(* Claim about the two clock reads of getLessons (checked under SpecLessons) *)

\* C11 as stated: in every 200 response of getLessons the date field names
\* the day whose day-of-year indexed the lesson lists, even if the clock
\* advances between the handler's two clock reads.
C11_DateIsDayOfSelection ==
    \A t \in Threads :
        (LessonsDone(t) /\ th[t].statusCode = 200) =>
            /\ th[t].body.date = StrfDate(th[t].loc.day_of_year)
            /\ th[t].body.lessons =
                  SelectLessons(catalog.lessons[th[t].body.grade],
                                TmYday(th[t].body.date[2]))

====
